---- MODULE Spec2Model ----
(***************************************************************************)
(* Model of src/main.py: the cash-flow forecast (generate_forecast,        *)
(* matches_frequency) and the debt payoff simulation (calculate_payoff,    *)
(* is_due, is_last_day_of_month).                                          *)
(*                                                                         *)
(* Representation.                                                         *)
(*  - A date string "MM-DD-YYYY" is the tuple <<MM, DD, YYYY>> of its      *)
(*    three fields in the order of the text; a datetime is the record      *)
(*    [year, month, day].  strptime and strftime convert between them.     *)
(*  - Money is a whole number of cents.  The request fields are Python     *)
(*    floats; the inputs enumerated here are multiples of 25 cents, which  *)
(*    are exact in binary, so float sums, float/Decimal comparisons and    *)
(*    Decimal(float) are exact on them.                                    *)
(*    In cents round(x, 2) of such a sum is the sum itself, so the         *)
(*    forecast's round() calls do not appear as operators.                 *)
(*  - None is the empty tuple.                                             *)
(***************************************************************************)
EXTENDS Integers, Sequences, FiniteSets, TLC

VARIABLES
    op,               \* which operation this run executes: "forecast", "payoff", "matches"
    request,          \* the request as received (never changed by the model)
    pc,               \* "start": before the method test; "loop": at the while test;
                      \* "returned"; "raised"
    exc,              \* the exception that ended the run, "" if none
    current_date,     \* datetime
    balance,          \* generate_forecast: running balance
    forecast,         \* generate_forecast: list of daily snapshots
    result,           \* the value returned (None until the return)
    debt,             \* calculate_payoff: request.debt, sorted and popped in place
    extra_payment,    \* calculate_payoff: the extra-payment pool
    payoff_schedule,  \* calculate_payoff: list of month-end snapshots
    current_month,    \* calculate_payoff: the start-month flag
    days,             \* calculate_payoff: iterations of the while loop so far
    ledger            \* calculate_payoff: a record of what the loop has done, not a
                      \* variable of the code: paid (payments subtracted from debts
                      \* that stayed), retired_payment (payments that retired a debt,
                      \* in full), retired_balance (the balances those payments
                      \* cleared), accrued (interest added); and of the last day
                      \* step: due_today (names of the debts in the collection and
                      \* due when the step began), journal (one entry per debt the
                      \* for loop processed as due), accrued_this_month (names of
                      \* the debts that accrued interest, one per accrual, since the
                      \* first day of the calendar month of the step)

fvars == <<balance, forecast>>

pvars == <<debt, extra_payment, payoff_schedule, current_month, days, ledger>>

vars == <<op, request, pc, exc, current_date, balance, forecast, result,
          debt, extra_payment, payoff_schedule, current_month, days, ledger>>

None == <<>>

-----------------------------------------------------------------------------
(* Calendar: datetime.strptime / strftime / toordinal / timedelta(days=1)   *)

strptime(s) == [year |-> s[3], month |-> s[1], day |-> s[2]]

strftime(d) == <<d.month, d.day, d.year>>

IsLeap(y) == (y % 4 = 0) /\ ((y % 100 # 0) \/ (y % 400 = 0))

\* calendar.monthrange(year, month)[1]
monthrange(y, m) ==
    IF m = 2 THEN (IF IsLeap(y) THEN 29 ELSE 28)
    ELSE IF m \in {4, 6, 9, 11} THEN 30 ELSE 31

RECURSIVE DaysBeforeMonth(_, _)
DaysBeforeMonth(y, m) ==
    IF m = 1 THEN 0 ELSE DaysBeforeMonth(y, m - 1) + monthrange(y, m - 1)

DaysBeforeYear(y) ==
    ((y - 1) * 365) + ((y - 1) \div 4) - ((y - 1) \div 100) + ((y - 1) \div 400)

toordinal(d) == DaysBeforeYear(d.year) + DaysBeforeMonth(d.year, d.month) + d.day

\* (a - b).days
DeltaDays(a, b) == toordinal(a) - toordinal(b)

\* d + timedelta(days=1)
AddDay(d) ==
    IF d.day < monthrange(d.year, d.month)
    THEN [d EXCEPT !.day = d.day + 1]
    ELSE IF d.month < 12
         THEN [year |-> d.year, month |-> d.month + 1, day |-> 1]
         ELSE [year |-> d.year + 1, month |-> 1, day |-> 1]

-----------------------------------------------------------------------------
(* Recurrence matcher                                                      *)

\* A slip in which the test for dates before the item's start is missing.
matches_frequency_nostart(date, item) ==
    LET start == strptime(item.start_date)
        delta_days == DeltaDays(date, start)
    IN  IF item.frequency = "monthly" THEN date.day = start.day
        ELSE IF item.frequency = "weekly" THEN delta_days % 7 = 0
        ELSE IF item.frequency = "biweekly" THEN delta_days % 14 = 0
        ELSE FALSE

\* A slip in which an unrecognised frequency falls through to the weekly rule.
matches_frequency_lenient(date, item) ==
    LET start == strptime(item.start_date)
        delta_days == DeltaDays(date, start)
    IN  IF delta_days < 0 THEN FALSE
        ELSE IF item.frequency = "monthly" THEN date.day = start.day
        ELSE IF item.frequency = "biweekly" THEN delta_days % 14 = 0
        ELSE delta_days % 7 = 0

matches_frequency(date, item) ==
    LET start == strptime(item.start_date)
        delta_days == DeltaDays(date, start)
    IN  IF delta_days < 0 THEN FALSE
        ELSE IF item.frequency = "monthly" THEN date.day = start.day
        ELSE IF item.frequency = "weekly" THEN delta_days % 7 = 0
        ELSE IF item.frequency = "biweekly" THEN delta_days % 14 = 0
        ELSE FALSE

-----------------------------------------------------------------------------
(* Cash-flow simulator: generate_forecast                                  *)

\* The items of `items` that fire on `date`, in input order.
RECURSIVE Firing(_, _)
Firing(date, items) ==
    IF items = <<>> THEN <<>>
    ELSE (IF matches_frequency(date, Head(items)) THEN <<Head(items)>> ELSE <<>>)
         \o Firing(date, Tail(items))

RECURSIVE SumAmount(_)
SumAmount(items) ==
    IF items = <<>> THEN 0 ELSE Head(items).amount + SumAmount(Tail(items))

Change(item, type) == [name |-> item.name, type |-> type, amount |-> item.amount]

RECURSIVE Changes(_, _)
Changes(items, type) ==
    IF items = <<>> THEN <<>>
    ELSE <<Change(Head(items), type)>> \o Changes(Tail(items), type)

\* A slip in which the bills are recorded before the paychecks.
DaySnapshot_billsfirst(req, date, bal) ==
    LET incomes == Firing(date, req.paychecks)
        bills == Firing(date, req.bills)
        daily_change == SumAmount(incomes) - SumAmount(bills)
    IN  [date |-> strftime(date),
         balance |-> bal + daily_change,
         daily_change |-> daily_change,
         changes |-> Changes(bills, "bill") \o Changes(incomes, "income")]

\* A slip in which daily_change is not reset at the beginning of the day.
DaySnapshot_noreset(req, date, bal) ==
    LET incomes == Firing(date, req.paychecks)
        bills == Firing(date, req.bills)
        daily_change == SumAmount(incomes) - SumAmount(bills)
    IN  [date |-> strftime(date),
         balance |-> bal + daily_change,
         daily_change |-> (bal - req.starting_balance) + daily_change,
         changes |-> Changes(incomes, "income") \o Changes(bills, "bill")]

\* One pass of the while body (lines 33-68) on `date` with running balance `bal`:
\* the balance after the day and the snapshot appended.
DaySnapshot(req, date, bal) ==
    LET incomes == Firing(date, req.paychecks)
        bills == Firing(date, req.bills)
        daily_change == SumAmount(incomes) - SumAmount(bills)
    IN  [date |-> strftime(date),
         balance |-> bal + daily_change,
         daily_change |-> daily_change,
         changes |-> Changes(incomes, "income") \o Changes(bills, "bill")]

\* The left-to-right scan of min(): the smallest balance of f[i..], or `best`.
RECURSIVE MinBalanceFrom(_, _, _)
MinBalanceFrom(f, i, best) ==
    IF i > Len(f) THEN best
    ELSE MinBalanceFrom(f, i + 1, IF f[i].balance < best THEN f[i].balance ELSE best)

\* A slip in which the minimum is seeded with the balance before the first day.
lowest_balance_seeded(req, f) == MinBalanceFrom(f, 1, req.starting_balance)

\* A slip in which the balance of the last day is reported as the lowest.
lowest_balance_final(req, f) == f[Len(f)].balance

\* min(f["balance"] for f in forecast), for a non-empty forecast
lowest_balance(req, f) == MinBalanceFrom(f, 2, f[1].balance)

\* A slip in which the scan returns the last negative day instead of the first.
RECURSIVE LastNegativeFrom(_, _)
LastNegativeFrom(f, i) ==
    IF i < 1 THEN None
    ELSE IF f[i].balance < 0 THEN f[i].date
    ELSE LastNegativeFrom(f, i - 1)

first_negative_date_last(f) == LastNegativeFrom(f, Len(f))

RECURSIVE FirstNegativeFrom(_, _)
FirstNegativeFrom(f, i) ==
    IF i > Len(f) THEN None
    ELSE IF f[i].balance < 0 THEN f[i].date
    ELSE FirstNegativeFrom(f, i + 1)

\* next((f["date"] for f in forecast if f["balance"] < 0), None)
first_negative_date(f) == FirstNegativeFrom(f, 1)

\* while current_date <= end_date: one iteration, lines 32-70
ForecastDay ==
    /\ op = "forecast"
    /\ pc = "loop"
    /\ toordinal(current_date) <= toordinal(strptime(request.end_date))
    /\ LET snap == DaySnapshot(request, current_date, balance)
       IN  /\ balance' = snap.balance
           /\ forecast' = Append(forecast, snap)
    /\ current_date' = AddDay(current_date)
    /\ UNCHANGED <<op, request, pc, exc, result, pvars>>

\* the return statement, lines 72-79; min() of an empty sequence raises ValueError
ForecastReturn ==
    /\ op = "forecast"
    /\ pc = "loop"
    /\ toordinal(current_date) > toordinal(strptime(request.end_date))
    /\ IF forecast = <<>>
       THEN /\ pc' = "raised"
            /\ exc' = "ValueError"
            /\ result' = None
       ELSE /\ pc' = "returned"
            /\ exc' = ""
            /\ result' = [forecast |-> forecast,
                          summary |-> [final_balance |-> balance,
                                       lowest_balance |-> lowest_balance(request, forecast),
                                       first_negative_date |-> first_negative_date(forecast)]]
    /\ UNCHANGED <<op, request, current_date, balance, forecast, pvars>>

-----------------------------------------------------------------------------
(* Forecast requests                                                       *)

MaxSpan == 14
MaxPaychecks == 2
MaxBills == 2

RECURSIVE PlusDays(_, _)
PlusDays(d, k) == IF k = 0 THEN d ELSE PlusDays(AddDay(d), k - 1)

ForecastStart == <<1, 1, 2024>>

\* the end dates: the day before the start (an empty range), the start itself,
\* one week, and the longest span
ForecastEnds ==
    {<<12, 31, 2023>>} \cup
    {strftime(PlusDays(strptime(ForecastStart), k)) : k \in {0, 6, MaxSpan}}

PaycheckItems ==
    { [name |-> "salary", amount |-> 200000, start_date |-> <<1, 1, 2024>>, frequency |-> "monthly"],
      [name |-> "gig", amount |-> 200000, start_date |-> <<1, 3, 2024>>, frequency |-> "biweekly"],
      [name |-> "bonus", amount |-> 200000, start_date |-> <<1, 1, 2024>>, frequency |-> "yearly"],
      [name |-> "side", amount |-> 200000, start_date |-> <<1, 1, 2024>>, frequency |-> "weekly"] }

BillItems ==
    { [name |-> "rent", amount |-> 50000, start_date |-> <<1, 1, 2024>>, frequency |-> "weekly"],
      [name |-> "loan", amount |-> 50000, start_date |-> <<1, 2, 2024>>, frequency |-> "biweekly"],
      [name |-> "card", amount |-> 50000, start_date |-> <<12, 5, 2023>>, frequency |-> "monthly"],
      [name |-> "misc", amount |-> 50000, start_date |-> <<1, 1, 2024>>, frequency |-> "daily"],
      [name |-> "phone", amount |-> 50000, start_date |-> <<12, 8, 2023>>, frequency |-> "monthly"] }

SeqsUpTo(S, n) == UNION {[1..k -> S] : k \in 0..n}

ForecastRequests ==
    [starting_balance : {0, 100000},
     start_date : {ForecastStart},
     end_date : ForecastEnds,
     paychecks : SeqsUpTo(PaycheckItems, MaxPaychecks),
     bills : SeqsUpTo(BillItems, MaxBills)]

\* nothing done yet
EmptyLedger ==
    [paid |-> 0, retired_payment |-> 0, retired_balance |-> 0, accrued |-> 0,
     due_today |-> <<>>, journal |-> <<>>, accrued_this_month |-> <<>>]

\* the payoff variables in a run of another operation
NoPayoff ==
    /\ debt = <<>>
    /\ extra_payment = 0
    /\ payoff_schedule = <<>>
    /\ current_month = TRUE
    /\ days = 0
    /\ ledger = EmptyLedger

\* lines 26-31
InitForecast ==
    /\ op = "forecast"
    /\ request \in ForecastRequests
    /\ pc = "loop"
    /\ exc = ""
    /\ current_date = strptime(request.start_date)
    /\ balance = request.starting_balance
    /\ forecast = <<>>
    /\ result = None
    /\ NoPayoff

NextForecast == ForecastDay \/ ForecastReturn

SpecForecast == InitForecast /\ [][NextForecast]_vars

-----------------------------------------------------------------------------
(* The recurrence matcher on its own: one call of matches_frequency        *)

MatchSpan == 70

MatchFirst == <<12, 25, 2023>>

\* the calendar dates from MatchFirst to MatchSpan days after it
MatchDates ==
    {d \in [year : {2023, 2024}, month : 1..12, day : 1..31] :
        /\ d.day <= monthrange(d.year, d.month)
        /\ DeltaDays(d, strptime(MatchFirst)) \in 0..MatchSpan}

MatchItems ==
    [name : {"item"}, amount : {50000},
     start_date : {<<12, 31, 2023>>, <<1, 1, 2024>>, <<1, 31, 2024>>},
     frequency : {"monthly", "weekly", "biweekly", "daily"}]

InitMatch ==
    /\ op = "matches"
    /\ request \in [date : MatchDates, item : MatchItems]
    /\ pc = "loop"
    /\ exc = ""
    /\ current_date = request.date
    /\ balance = 0
    /\ forecast = <<>>
    /\ result = None
    /\ NoPayoff

\* one call matches_frequency(date, item), lines 81-92
Match ==
    /\ op = "matches"
    /\ pc = "loop"
    /\ result' = matches_frequency(request.date, request.item)
    /\ pc' = "returned"
    /\ UNCHANGED <<op, request, exc, current_date, fvars, pvars>>

NextMatch == Match

SpecMatch == InitMatch /\ [][NextMatch]_vars

-----------------------------------------------------------------------------
(* Debt payoff simulator: calculate_payoff                                 *)
(*                                                                         *)
(* A debt is [name, due_date, current_balance, apr, minimum_payment,       *)
(* is_decimal].  apr is a whole percentage.  current_balance starts as a   *)
(* float and becomes a Decimal at line 161; is_decimal records which it    *)
(* is, because float and Decimal operands do not mix in -, * and +.        *)

is_due(date, d) == date.day = strptime(d.due_date).day

\* A slip in which every month is taken to end on the 31st.
is_last_day_of_month_31(date) == date.day = 31

is_last_day_of_month(date) == date.day = monthrange(date.year, date.month)

\* n / d rounded to an integer, ties to even: round(Decimal, 2), in cents
RoundHalfEven(n, d) ==
    LET q == n \div d
        r == n % d
    IN  IF 2 * r < d THEN q
        ELSE IF 2 * r > d THEN q + 1
        ELSE IF q % 2 = 0 THEN q ELSE q + 1

\* n / d rounded to an integer, ties up: quantize(..., ROUND_HALF_UP), in cents
RoundHalfUp(n, d) ==
    LET q == n \div d
        r == n % d
    IN  IF 2 * r < d THEN q ELSE q + 1

\* round(debt.current_balance * (Decimal(debt.apr)/100)/12, 2), lines 138 and 154
interest_gained(d) == RoundHalfEven(d.current_balance * d.apr, 1200)

\* Decimal(debt.current_balance).quantize(Decimal('0.01'), rounding=ROUND_HALF_UP)
quantize(cents) == RoundHalfUp(cents, 1)

\* A slip in which the target debt is paid the minimum only.
Payment_minimum(d, i, extra) == d.minimum_payment

\* the payment of a due date: minimum_payment + extra_payment for the debt at
\* index 0 (position 1 here), minimum_payment for the others
Payment(d, i, extra) ==
    IF i = 1 THEN d.minimum_payment + extra ELSE d.minimum_payment

\* A slip in which the removed element is replaced by the last one
\* (swap-remove), which changes the order of the remaining elements.
Pop_swap(L, i) ==
    IF i = Len(L) THEN SubSeq(L, 1, i - 1)
    ELSE SubSeq(L, 1, i - 1) \o <<L[Len(L)]>> \o SubSeq(L, i + 1, Len(L) - 1)

\* request.debt.pop(i), for the position i of the model (index i - 1)
Pop(L, i) == SubSeq(L, 1, i - 1) \o SubSeq(L, i + 1, Len(L))

\* sort key of the method: current_balance ascending, or apr descending
SortKey(d, method) == IF method = "snowball" THEN d.current_balance ELSE 0 - d.apr

\* A slip in which d is inserted before the elements of equal key, which
\* reverses the input order of equal keys.
RECURSIVE InsertByKey_unstable(_, _, _)
InsertByKey_unstable(d, L, method) ==
    IF L = <<>> THEN <<d>>
    ELSE IF SortKey(Head(L), method) < SortKey(d, method)
         THEN <<Head(L)>> \o InsertByKey_unstable(d, Tail(L), method)
         ELSE <<d>> \o L

\* d inserted behind every element whose key is not larger
RECURSIVE InsertByKey(_, _, _)
InsertByKey(d, L, method) ==
    IF L = <<>> THEN <<d>>
    ELSE IF SortKey(Head(L), method) <= SortKey(d, method)
         THEN <<Head(L)>> \o InsertByKey(d, Tail(L), method)
         ELSE <<d>> \o L

\* list.sort(key=...) / list.sort(key=..., reverse=True): a stable sort
RECURSIVE SortDebts(_, _)
SortDebts(L, method) ==
    IF L = <<>> THEN <<>>
    ELSE InsertByKey(L[Len(L)], SortDebts(SubSeq(L, 1, Len(L) - 1), method), method)

\* The for loop of lines 127-161 from position i on: the list iterator reads
\* position i of the list as it is now, so after a pop the element that moved
\* into position i is not visited.  The result is the state at the end of the
\* loop, or at the TypeError that ended it.
RECURSIVE ForLoop(_, _, _, _, _, _)
ForLoop(L, i, extra, in_month, date, led) ==
    IF i > Len(L)
    THEN [debt |-> L, extra_payment |-> extra, exc |-> "", ledger |-> led]
    ELSE
    LET d == L[i]
        pay == Payment(d, i, extra)
        \* what the ledger books for this due date: the minimum payment, and the
        \* pooled extra payment for the debt at index 0
        nominal == d.minimum_payment + (IF i = 1 THEN extra ELSE 0)
        interest == IF in_month THEN 0 ELSE interest_gained(d)
        owed == d.current_balance + interest
        entry == [name |-> d.name, position |-> i, before |-> d.current_balance,
                  accrual |-> ~in_month, interest |-> interest, payment |-> pay,
                  retired |-> owed <= pay,
                  after |-> IF owed <= pay THEN owed ELSE quantize(owed - pay)]
        booked == [led EXCEPT !.accrued = @ + interest,
                              !.journal = Append(@, entry),
                              !.accrued_this_month =
                                  IF in_month THEN @ ELSE Append(@, d.name)]
    IN  IF ~is_due(date, d)
        THEN \* line 161 only
             ForLoop([L EXCEPT ![i].current_balance = quantize(@), ![i].is_decimal = TRUE],
                     i + 1, extra, in_month, date, led)
        ELSE IF (~in_month /\ ~d.is_decimal) \/ (owed > pay /\ ~d.is_decimal)
        THEN \* float * Decimal at lines 138, 154; float -= Decimal at lines 135, 151
             [debt |-> L, extra_payment |-> extra, exc |-> "TypeError", ledger |-> led]
        ELSE IF owed <= pay
        THEN \* retired: lines 131-133, 140-142, 147-149, 156-158
             ForLoop(Pop(L, i), i + 1, extra + d.minimum_payment, in_month, date,
                     [booked EXCEPT !.retired_balance = @ + owed,
                                    !.retired_payment = @ + nominal])
        ELSE \* paid down: lines 135, 144, 151, 160, then line 161
             ForLoop([L EXCEPT ![i].current_balance = quantize(owed - pay),
                               ![i].is_decimal = TRUE],
                     i + 1, extra, in_month, date,
                     [booked EXCEPT !.paid = @ + nominal])

RECURSIVE SumBalance(_)
SumBalance(L) ==
    IF L = <<>> THEN 0 ELSE Head(L).current_balance + SumBalance(Tail(L))

\* sum() at line 173 adds a float and a Decimal: TypeError
MixedTypes(L) ==
    \E i, j \in 1..Len(L) : L[i].is_decimal /\ ~L[j].is_decimal

\* the snapshot of lines 165-181
MonthEndSnapshot(date, L, extra) ==
    [date |-> strftime(date),
     total_debt |-> SumBalance(L),
     extra_payment |-> extra,
     debt |-> [k \in 1..Len(L) |->
                  [name |-> L[k].name, current_balance |-> L[k].current_balance]]]

\* dt + relativedelta(months=n): the day is cut to the length of the month
AddMonths(dt, n) ==
    LET m0 == (dt.year * 12) + (dt.month - 1) + n
        y == m0 \div 12
        m == (m0 % 12) + 1
    IN  [year |-> y, month |-> m,
         day |-> IF dt.day < monthrange(y, m) THEN dt.day ELSE monthrange(y, m)]

\* relativedelta(dt1, dt2) for dt1 not before dt2, normalised
relativedelta(dt1, dt2) ==
    LET months0 == ((dt1.year - dt2.year) * 12) + (dt1.month - dt2.month)
        months == IF toordinal(dt1) < toordinal(AddMonths(dt2, months0))
                  THEN months0 - 1 ELSE months0
    IN  [years |-> months \div 12,
         months |-> months % 12,
         days |-> DeltaDays(dt1, AddMonths(dt2, months))]

MaxPayoffDays == 400

\* A slip in which the flag is recomputed from the month number alone.
StartMonthFlag_monthonly(flag, date, start_date) == date.month = start_date.month

\* lines 125-126: the flag is cleared on a date outside the month and year of
\* start_date and is never set again
StartMonthFlag(flag, date, start_date) ==
    IF date.month # start_date.month
          \/ (date.month = start_date.month /\ date.year # start_date.year)
    THEN FALSE
    ELSE flag

\* the names of the debts of L that are due on `date`
RECURSIVE DueNames(_, _)
DueNames(L, date) ==
    IF L = <<>> THEN <<>>
    ELSE (IF is_due(date, Head(L)) THEN <<Head(L).name>> ELSE <<>>)
         \o DueNames(Tail(L), date)

\* the ledger at the beginning of a day step
DayLedger(led, L, date) ==
    [led EXCEPT !.due_today = DueNames(L, date),
                !.journal = <<>>,
                !.accrued_this_month = IF date.day = 1 THEN <<>> ELSE @]

\* lines 115-123: the method test and the sort
PayoffSort ==
    /\ op = "payoff"
    /\ pc = "start"
    /\ IF request.method \in {"snowball", "avalanche"}
       THEN /\ debt' = SortDebts(debt, request.method)
            /\ pc' = "loop"
       ELSE \* line 120: a bare return
            /\ debt' = debt
            /\ pc' = "returned"
    /\ UNCHANGED <<op, request, exc, current_date, fvars, result, extra_payment,
                   payoff_schedule, current_month, days, ledger>>

\* while request.debt: one iteration, lines 124-182
PayoffDay ==
    /\ op = "payoff"
    /\ pc = "loop"
    /\ debt # <<>>
    /\ days < MaxPayoffDays
    /\ LET start_date == strptime(request.start_date)
           in_month == StartMonthFlag(current_month, current_date, start_date)
           r == ForLoop(debt, 1, extra_payment, in_month, current_date,
                        DayLedger(ledger, debt, current_date))
           month_end == is_last_day_of_month(current_date)
           failed == r.exc # "" \/ (month_end /\ MixedTypes(r.debt))
       IN  /\ current_month' = in_month
           /\ debt' = r.debt
           /\ extra_payment' = r.extra_payment
           /\ ledger' = r.ledger
           /\ IF failed
              THEN /\ pc' = "raised"
                   /\ exc' = "TypeError"
                   /\ UNCHANGED <<payoff_schedule, current_date, days>>
              ELSE /\ payoff_schedule' =
                         IF month_end
                         THEN Append(payoff_schedule,
                                     MonthEndSnapshot(current_date, r.debt, r.extra_payment))
                         ELSE payoff_schedule
                   /\ current_date' = AddDay(current_date)
                   /\ days' = days + 1
                   /\ UNCHANGED <<pc, exc>>
    /\ UNCHANGED <<op, request, fvars, result>>

\* lines 184-193, once request.debt is empty
PayoffReturn ==
    /\ op = "payoff"
    /\ pc = "loop"
    /\ debt = <<>>
    /\ pc' = "returned"
    /\ result' = [schedule |-> payoff_schedule,
                  time_to_payoff |->
                      relativedelta(current_date, strptime(request.start_date))]
    /\ UNCHANGED <<op, request, exc, current_date, fvars, pvars>>

-----------------------------------------------------------------------------
(* Payoff requests                                                         *)

MaxDebts == 3

Debts ==
    { [name |-> "visa", due_date |-> <<6, 15, 2023>>, current_balance |-> 30000,
       apr |-> 12, minimum_payment |-> 10000, is_decimal |-> FALSE],
      [name |-> "auto", due_date |-> <<3, 31, 2023>>, current_balance |-> 20000,
       apr |-> 24, minimum_payment |-> 10000, is_decimal |-> FALSE],
      [name |-> "store", due_date |-> <<1, 20, 2024>>, current_balance |-> 10000,
       apr |-> 12, minimum_payment |-> 10000, is_decimal |-> FALSE],
      [name |-> "loan", due_date |-> <<2, 20, 2024>>, current_balance |-> 120000,
       apr |-> 12, minimum_payment |-> 1000, is_decimal |-> FALSE],
      [name |-> "card", due_date |-> <<1, 20, 2024>>, current_balance |-> 25050,
       apr |-> 12, minimum_payment |-> 10000, is_decimal |-> FALSE],
      [name |-> "gym", due_date |-> <<12, 31, 2023>>, current_balance |-> 5000,
       apr |-> 18, minimum_payment |-> 5000, is_decimal |-> FALSE],
      [name |-> "dept", due_date |-> <<1, 20, 2024>>, current_balance |-> 10000,
       apr |-> 18, minimum_payment |-> 10000, is_decimal |-> FALSE] }

\* lists of distinct debts
DebtLists ==
    {L \in SeqsUpTo(Debts, MaxDebts) : \A i, j \in 1..Len(L) : i # j => L[i] # L[j]}

PayoffRequests ==
    [start_date : {<<1, 15, 2024>>, <<1, 31, 2024>>},
     method : {"snowball", "avalanche", "fastest"},
     extra_payment : {0, 5000},
     debt : DebtLists]

\* lines 110-113
InitPayoff ==
    /\ op = "payoff"
    /\ request \in PayoffRequests
    /\ pc = "start"
    /\ exc = ""
    /\ current_date = strptime(request.start_date)
    /\ balance = 0
    /\ forecast = <<>>
    /\ result = None
    /\ debt = request.debt
    /\ extra_payment = request.extra_payment
    /\ payoff_schedule = <<>>
    /\ current_month = TRUE
    /\ days = 0
    /\ ledger = EmptyLedger

NextPayoff == PayoffSort \/ PayoffDay \/ PayoffReturn

SpecPayoff == InitPayoff /\ [][NextPayoff]_vars

-----------------------------------------------------------------------------
(* Properties of the forecast                                              *)

RangeNonEmpty(req) ==
    toordinal(strptime(req.start_date)) <= toordinal(strptime(req.end_date))

ForecastEnded == op = "forecast" /\ pc # "loop"

ForecastReturned == op = "forecast" /\ pc = "returned"

\* C1: for a request with start_date <= end_date the forecast returns, and the
\* summary's lowest_balance is the minimum of the snapshots' balances: no
\* snapshot is below it and some snapshot has exactly that balance.
C1_LowestIsMin ==
    (ForecastEnded /\ RangeNonEmpty(request)) =>
        /\ pc = "returned"
        /\ \A i \in 1..Len(result.forecast) :
               result.summary.lowest_balance <= result.forecast[i].balance
        /\ \E i \in 1..Len(result.forecast) :
               result.summary.lowest_balance = result.forecast[i].balance

\* A returned forecast whose lowest balance is reached strictly inside the range.
C1_Witness ==
    /\ ForecastReturned
    /\ Len(result.forecast) >= 3
    /\ result.summary.lowest_balance < result.forecast[1].balance
    /\ result.summary.lowest_balance < result.forecast[Len(result.forecast)].balance

\* C2: for a request with start_date <= end_date, first_negative_date is None
\* exactly when no snapshot has a balance below 0, and otherwise it is the date
\* of the earliest snapshot with a balance below 0, whatever happens later.
C2_FirstNegative ==
    (ForecastEnded /\ RangeNonEmpty(request)) =>
        /\ pc = "returned"
        /\ LET f == result.forecast
               neg == {i \in 1..Len(f) : f[i].balance < 0}
           IN  IF neg = {}
               THEN result.summary.first_negative_date = None
               ELSE \E i \in neg :
                       /\ \A j \in neg : i <= j
                       /\ result.summary.first_negative_date = f[i].date

\* A returned forecast that goes negative, recovers, and goes negative again.
C2_Witness ==
    /\ ForecastReturned
    /\ \E i, j, k \in 1..Len(result.forecast) :
          /\ i < j /\ j < k
          /\ result.forecast[i].balance < 0
          /\ result.forecast[j].balance >= 0
          /\ result.forecast[k].balance < 0
          /\ \A h \in 1..(i - 1) : result.forecast[h].balance >= 0
          /\ result.summary.first_negative_date = result.forecast[i].date

-----------------------------------------------------------------------------
(* Properties of the recurrence matcher                                    *)

\* a is a calendar date before b, compared field by field
DateBefore(a, b) ==
    \/ a.year < b.year
    \/ a.year = b.year /\ a.month < b.month
    \/ a.year = b.year /\ a.month = b.month /\ a.day < b.day

\* b is reached from a by whole steps of n days (0 or more), by stepping the
\* calendar one day at a time.
RECURSIVE OnGrid(_, _, _)
OnGrid(a, b, n) ==
    IF a = b THEN TRUE
    ELSE IF DateBefore(b, a) THEN FALSE
    ELSE OnGrid(PlusDays(a, n), b, n)

\* C3: matches_frequency is false before the item's start date; from the start
\* date on, a monthly item fires iff the day of month equals the start's, a
\* weekly item iff the elapsed days are a multiple of 7, a biweekly item iff
\* they are a multiple of 14.  A monthly item that starts on day 31 does not
\* fire in a month with fewer than 31 days.
C3_MatchesFrequency ==
    (op = "matches" /\ pc = "returned") =>
        LET date == request.date
            item == request.item
            start == strptime(item.start_date)
        IN  /\ DateBefore(date, start) => result = FALSE
            /\ (~DateBefore(date, start) /\ item.frequency = "monthly") =>
                   (result <=> date.day = start.day)
            /\ (~DateBefore(date, start) /\ item.frequency = "weekly") =>
                   (result <=> OnGrid(start, date, 7))
            /\ (~DateBefore(date, start) /\ item.frequency = "biweekly") =>
                   (result <=> OnGrid(start, date, 14))
            /\ (item.frequency = "monthly" /\ start.day = 31
                    /\ monthrange(date.year, date.month) < 31) => result = FALSE

\* A monthly item that starts on 31 January has been tried on the last day of
\* February and did not fire.
C3_Witness ==
    /\ op = "matches" /\ pc = "returned"
    /\ request.item.frequency = "monthly"
    /\ request.item.start_date = <<1, 31, 2024>>
    /\ request.date = [year |-> 2024, month |-> 2, day |-> 29]
    /\ result = FALSE

-----------------------------------------------------------------------------
(* Unrecognised frequencies, empty ranges, the example scenario            *)

KnownFrequency(item) == item.frequency \in {"monthly", "weekly", "biweekly"}

\* The request without its items of unrecognised frequency.
Stripped(req) ==
    [req EXCEPT !.paychecks = SelectSeq(req.paychecks, KnownFrequency),
                !.bills = SelectSeq(req.bills, KnownFrequency)]

\* The snapshots of a whole run on `req`, from `date` with balance `bal`.
RECURSIVE SnapshotsFrom(_, _, _)
SnapshotsFrom(req, date, bal) ==
    IF toordinal(date) > toordinal(strptime(req.end_date)) THEN <<>>
    ELSE LET snap == DaySnapshot(req, date, bal)
         IN  <<snap>> \o SnapshotsFrom(req, AddDay(date), snap.balance)

\* C4: an item whose frequency is none of monthly, weekly, biweekly never fires
\* and raises no error: a request with start_date <= end_date returns, and its
\* snapshots (dates, balances, daily_change, changes) are those of the same
\* request with every such item removed.
C4_UnknownFrequencyIgnored ==
    (ForecastEnded /\ RangeNonEmpty(request)) =>
        /\ pc = "returned"
        /\ exc = ""
        /\ result.forecast =
               SnapshotsFrom(Stripped(request), strptime(request.start_date),
                             request.starting_balance)
        /\ \A i \in 1..Len(result.forecast) :
               \A j \in 1..Len(result.forecast[i].changes) :
                  \A it \in PaycheckItems \cup BillItems :
                     it.name = result.forecast[i].changes[j].name => KnownFrequency(it)

\* A returned forecast over the longest span whose request holds a paycheck and
\* a bill of unrecognised frequency next to a bill that fired.
C4_Witness ==
    /\ ForecastReturned
    /\ Len(result.forecast) = MaxSpan + 1
    /\ \E i \in 1..Len(request.paychecks) : ~KnownFrequency(request.paychecks[i])
    /\ \E i \in 1..Len(request.bills) : ~KnownFrequency(request.bills[i])
    /\ \E i \in 1..Len(result.forecast) : result.forecast[i].changes # <<>>

\* C6: a request with start_date > end_date produces no snapshot and ends in a
\* defined outcome: it raises EmptyRangeError, or it returns.
C6_EmptyRangeDefined ==
    (ForecastEnded /\ ~RangeNonEmpty(request)) =>
        /\ forecast = <<>>
        /\ \/ pc = "raised" /\ exc = "EmptyRangeError"
           \/ pc = "returned"

ExampleRequest ==
    [starting_balance |-> 100000,
     start_date |-> <<1, 1, 2024>>,
     end_date |-> <<1, 7, 2024>>,
     paychecks |-> << [name |-> "salary", amount |-> 200000,
                       start_date |-> <<1, 1, 2024>>, frequency |-> "monthly"] >>,
     bills |-> << [name |-> "rent", amount |-> 50000,
                   start_date |-> <<1, 1, 2024>>, frequency |-> "weekly"] >>]

ExampleEnded == ForecastEnded /\ request = ExampleRequest

\* C10 as stated: in the example scenario every daily balance is 2500.00,
\* first_negative_date is None and lowest_balance is 1000.00.
C10_ExampleAsStated ==
    ExampleEnded =>
        /\ pc = "returned"
        /\ Len(result.forecast) = 7
        /\ \A i \in 1..7 : result.forecast[i].balance = 250000
        /\ result.summary.first_negative_date = None
        /\ result.summary.lowest_balance = 100000

\* C10 amended: in the example scenario there are seven snapshots, 01-01-2024
\* to 01-07-2024, every daily balance is 2500.00, first_negative_date is None
\* and lowest_balance is 2500.00.
C10_Example ==
    ExampleEnded =>
        /\ pc = "returned"
        /\ Len(result.forecast) = 7
        /\ \A i \in 1..7 : /\ result.forecast[i].balance = 250000
                            /\ result.forecast[i].date = <<1, i, 2024>>
        /\ result.summary.first_negative_date = None
        /\ result.summary.lowest_balance = 250000

\* The example scenario has returned.
C10_Witness == ExampleEnded /\ pc = "returned" /\ result.summary.final_balance = 250000

-----------------------------------------------------------------------------
(* Properties of the payoff simulation                                     *)

ValidMethod(req) == req.method \in {"snowball", "avalanche"}

PayoffEnded == op = "payoff" /\ pc \in {"returned", "raised"}

\* C5: a payoff request whose method is neither snowball nor avalanche ends in
\* an UnsupportedMethodError raised to the caller before any day is stepped: no
\* debt is changed and no schedule is produced.
C5_UnsupportedMethod ==
    (op = "payoff" /\ pc # "start" /\ ~ValidMethod(request)) =>
        /\ pc = "raised"
        /\ exc = "UnsupportedMethodError"
        /\ days = 0
        /\ debt = request.debt
        /\ payoff_schedule = <<>>

\* every debt's minimum_payment exceeds the interest of its first month
MinimumCoversInterest(req) ==
    \A i \in 1..Len(req.debt) : req.debt[i].minimum_payment > interest_gained(req.debt[i])

\* C7: a payoff run with a valid method in which every minimum_payment exceeds
\* the first month's interest ends only with an empty debt collection.
C7_Terminates ==
    (PayoffEnded /\ ValidMethod(request) /\ MinimumCoversInterest(request)) =>
        /\ pc = "returned"
        /\ debt = <<>>

\* no payment of the run can reduce a balance: for every debt the interest of a
\* month is at least the largest payment it can get, also after one payment
\* made in the start month
NeverConverges(req) ==
    /\ req.debt # <<>>
    /\ \A i \in 1..Len(req.debt) :
          LET d == req.debt[i]
              pay == d.minimum_payment + req.extra_payment
          IN  /\ d.current_balance > 2 * pay
              /\ RoundHalfEven((d.current_balance - pay) * d.apr, 1200) >= pay

\* C8: a run whose debts never reach zero is stopped by a guard: by the time
\* MaxPayoffDays day steps have run it has failed with NonConvergentPayoffError.
C8_NonConvergenceGuarded ==
    (op = "payoff" /\ ValidMethod(request) /\ NeverConverges(request)
        /\ days = MaxPayoffDays) =>
        /\ pc = "raised"
        /\ exc = "NonConvergentPayoffError"

\* C9 as stated: at every point of a run, the payments applied so far, each
\* counted in full (minimum_payment, plus the extra pool for the target debt),
\* plus the balances still in the collection equal the original balances plus
\* the interest accrued so far.
C9_ConservationAsStated ==
    op = "payoff" =>
        ledger.paid + ledger.retired_payment + SumBalance(debt)
            = SumBalance(request.debt) + ledger.accrued

\* C9 amended: at every point of a run, the payments applied to debts that
\* stayed in the collection (minimum_payment, plus the extra pool for the target
\* debt), plus the balances (after interest) cleared when debts were retired,
\* plus the balances still in the collection equal the original balances plus
\* the interest accrued so far; a retiring payment exceeds the balance it
\* clears by retired_payment - retired_balance >= 0.
C9_Conservation ==
    op = "payoff" =>
        /\ ledger.paid + ledger.retired_balance + SumBalance(debt)
              = SumBalance(request.debt) + ledger.accrued
        /\ ledger.retired_payment >= ledger.retired_balance

\* A run in which interest has accrued, a debt has been paid down with the
\* extra pool, a debt has been retired by a payment larger than its balance,
\* and a debt remains.
C9_Witness ==
    /\ op = "payoff" /\ pc = "loop"
    /\ request.extra_payment > 0
    /\ ledger.accrued > 0
    /\ ledger.paid > 0
    /\ ledger.retired_payment > ledger.retired_balance
    /\ debt # <<>>

-----------------------------------------------------------------------------
(* Properties of the allocation policy                                     *)

\* the state between the sort and the first day step
Sorted == op = "payoff" /\ pc = "loop" /\ days = 0

\* the position of debt d in the request's list (the lists hold distinct debts)
InputPosition(d) == CHOOSE k \in 1..Len(request.debt) : request.debt[k] = d

\* d comes no later than e in the order of the method
InOrder(d, e, method) ==
    IF method = "snowball"
    THEN d.current_balance <= e.current_balance
    ELSE d.apr >= e.apr

\* C11: before the first day step the collection holds the request's debts
\* ordered by the method (snowball: ascending current_balance; avalanche:
\* descending apr), debts of equal key in input order; its first debt, the
\* target of the extra payment, is the first input debt with the lowest
\* balance (snowball) or the highest apr (avalanche).
C11_StableSort ==
    Sorted =>
        /\ Len(debt) = Len(request.debt)
        /\ \A k \in 1..Len(request.debt) : \E i \in 1..Len(debt) : debt[i] = request.debt[k]
        /\ \A i, j \in 1..Len(debt) :
              i < j =>
                 /\ InOrder(debt[i], debt[j], request.method)
                 /\ InOrder(debt[j], debt[i], request.method) =>
                        InputPosition(debt[i]) < InputPosition(debt[j])
        /\ debt # <<>> =>
              \E k \in 1..Len(request.debt) :
                 /\ debt[1] = request.debt[k]
                 /\ \A h \in 1..Len(request.debt) :
                       InOrder(request.debt[k], request.debt[h], request.method)
                 /\ \A h \in 1..(k - 1) :
                       ~InOrder(request.debt[h], request.debt[k], request.method)

\* Three debts have been sorted into another order than the input's, two of
\* them with equal keys.
C11_Witness ==
    /\ Sorted
    /\ Len(debt) = 3
    /\ debt # request.debt
    /\ \E i, j \in 1..3 :
          /\ i < j
          /\ InOrder(debt[j], debt[i], request.method)
          /\ debt[1] # request.debt[1]

-----------------------------------------------------------------------------
(* Shape of the forecast                                                   *)

\* the change entries expected on the date of snapshot sn: the firing
\* paychecks in input order, then the firing bills in input order
ExpectedChanges(req, sn) ==
    LET date == strptime(sn.date)
        Fires(item) == matches_frequency(date, item)
        inc == SelectSeq(req.paychecks, Fires)
        out == SelectSeq(req.bills, Fires)
    IN  [k \in 1..(Len(inc) + Len(out)) |->
            IF k <= Len(inc)
            THEN [name |-> inc[k].name, type |-> "income", amount |-> inc[k].amount]
            ELSE [name |-> out[k - Len(inc)].name, type |-> "bill",
                  amount |-> out[k - Len(inc)].amount]]

\* C12: the forecast holds one snapshot per calendar day from start_date to
\* end_date inclusive, in ascending order, consecutive dates one day apart;
\* each snapshot's changes are the firing paychecks in input order followed by
\* the firing bills in input order.
C12_OneSnapshotPerDay ==
    (ForecastEnded /\ RangeNonEmpty(request)) =>
        /\ pc = "returned"
        /\ LET f == result.forecast
           IN  /\ f[1].date = request.start_date
               /\ f[Len(f)].date = request.end_date
               /\ \A i \in 1..(Len(f) - 1) :
                     /\ DateBefore(strptime(f[i].date), strptime(f[i + 1].date))
                     /\ DeltaDays(strptime(f[i + 1].date), strptime(f[i].date)) = 1
               /\ \A i \in 1..Len(f) : f[i].changes = ExpectedChanges(request, f[i])

\* A returned forecast over the longest span with a day on which two different
\* paychecks and a bill fired and a day on which two different bills fired.
C12_Witness ==
    /\ ForecastReturned
    /\ Len(result.forecast) = MaxSpan + 1
    /\ \E i \in 1..Len(result.forecast) :
          LET c == result.forecast[i].changes
          IN  /\ Len(c) >= 3
              /\ c[1].type = "income" /\ c[2].type = "income" /\ c[3].type = "bill"
              /\ c[1].name # c[2].name
    /\ \E i \in 1..Len(result.forecast) :
          LET c == result.forecast[i].changes
          IN  \E k \in 1..(Len(c) - 1) :
                 /\ c[k].type = "bill" /\ c[k + 1].type = "bill"
                 /\ c[k].name # c[k + 1].name

RECURSIVE SumChanges(_, _)
SumChanges(c, type) ==
    IF c = <<>> THEN 0
    ELSE (IF Head(c).type = type THEN Head(c).amount ELSE 0) + SumChanges(Tail(c), type)

\* C20: each snapshot's daily_change is the sum of its income amounts minus
\* the sum of its bill amounts, each snapshot's balance is the starting balance
\* plus the daily_change of every snapshot up to and including it, and
\* final_balance is the balance of the last snapshot.
C20_RunningBalance ==
    ForecastReturned =>
        LET f == result.forecast
        IN  /\ \A i \in 1..Len(f) :
                  /\ f[i].daily_change =
                        SumChanges(f[i].changes, "income") - SumChanges(f[i].changes, "bill")
                  /\ f[i].balance =
                        (IF i = 1 THEN request.starting_balance ELSE f[i - 1].balance)
                           + f[i].daily_change
            /\ result.summary.final_balance = f[Len(f)].balance

\* A returned forecast with a day of income and a bill, a day of bills only,
\* and a day without changes, whose final balance differs from the starting
\* balance.
C20_Witness ==
    /\ ForecastReturned
    /\ result.summary.final_balance # request.starting_balance
    /\ \E i, j, k \in 1..Len(result.forecast) :
          /\ i < j
          /\ SumChanges(result.forecast[i].changes, "income") > 0
          /\ SumChanges(result.forecast[i].changes, "bill") > 0
          /\ result.forecast[j].daily_change < 0
          /\ result.forecast[k].changes = <<>>

-----------------------------------------------------------------------------
(* Properties of the day step                                              *)

\* a day step has been completed (no exception in it)
DayStepped == op = "payoff" /\ pc \in {"loop", "returned"} /\ days >= 1

\* the journal entries of the last day step for the debt called n
EntriesOf(n) == {j \in 1..Len(ledger.journal) : ledger.journal[j].name = n}

\* C13: in every day step, each debt that is in the collection and due when
\* the step begins is processed exactly once in that step, also when a debt
\* earlier in the collection is retired in the same step; nothing else is
\* processed.
C13_EachDueDebtOnce ==
    DayStepped =>
        /\ \A k \in 1..Len(ledger.due_today) :
              Cardinality(EntriesOf(ledger.due_today[k])) = 1
        /\ \A j \in 1..Len(ledger.journal) :
              \E k \in 1..Len(ledger.due_today) :
                 ledger.due_today[k] = ledger.journal[j].name

\* the number of times the debt called n accrued interest in the calendar
\* month of the last day step
AccrualsThisMonth(n) ==
    Cardinality({j \in 1..Len(ledger.accrued_this_month) : ledger.accrued_this_month[j] = n})

\* the last day step was the last day of a calendar month after the start month
MonthCompleted ==
    /\ op = "payoff" /\ pc = "loop" /\ days >= 1
    /\ ~current_month
    /\ current_date.day = 1

\* C14: outside the start month every debt accrues interest exactly once per
\* calendar month while it is in the collection, whatever its due day: never
\* twice in a month, and once by the end of every month it is still there.
C14_InterestOncePerMonth ==
    /\ DayStepped =>
          \A i \in 1..Len(request.debt) : AccrualsThisMonth(request.debt[i].name) <= 1
    /\ MonthCompleted =>
          \A i \in 1..Len(debt) : AccrualsThisMonth(debt[i].name) = 1

\* the date lies in the calendar month and year of the request's start_date
InStartMonth(date) ==
    LET start_date == strptime(request.start_date)
    IN  date.month = start_date.month /\ date.year = start_date.year

\* the apr of the request's debt called n
AprOf(n) ==
    LET i == CHOOSE j \in 1..Len(request.debt) : request.debt[j].name = n
    IN  request.debt[i].apr

\* the payment applied to a journal entry: the pool goes to position 1 only;
\* `pool` is the pool before the entry
EntryPayment(e, pool) ==
    LET i == CHOOSE j \in 1..Len(request.debt) : request.debt[j].name = e.name
    IN  request.debt[i].minimum_payment + (IF e.position = 1 THEN pool ELSE 0)

\* the journal entries of the last day step follow the order interest first,
\* payment second (flag false) or carry no interest at all (flag true)
RECURSIVE JournalInOrder(_, _, _)
JournalInOrder(J, pool, flag) ==
    IF J = <<>> THEN TRUE
    ELSE LET e == Head(J)
             pay == EntryPayment(e, pool)
             interest == IF flag THEN 0 ELSE RoundHalfEven(e.before * AprOf(e.name), 1200)
             owed == e.before + interest
             minimum == pay - (IF e.position = 1 THEN pool ELSE 0)
         IN  /\ e.accrual = ~flag
             /\ e.interest = interest
             /\ e.payment = pay
             /\ e.retired = (owed <= pay)
             /\ e.after = (IF owed <= pay THEN owed ELSE quantize(owed - pay))
             /\ flag => e.after <= e.before
             /\ JournalInOrder(Tail(J), IF owed <= pay THEN pool + minimum ELSE pool, flag)

\* the pool before the journal entries of the last day step
RECURSIVE PoolBefore(_, _)
PoolBefore(J, pool) ==
    IF J = <<>> THEN pool
    ELSE LET e == J[Len(J)]
             i == CHOOSE j \in 1..Len(request.debt) : request.debt[j].name = e.name
         IN  PoolBefore(SubSeq(J, 1, Len(J) - 1),
                        IF e.retired THEN pool - request.debt[i].minimum_payment ELSE pool)

\* C15: the start-month flag of a day step is true exactly when the date of
\* the step lies in the month and year of start_date, and once false it stays
\* false (also one year later in the same month number); a debt processed
\* while the flag is true gets no interest and its balance does not grow, a debt
\* processed while it is false gets its interest added first and the payment
\* is compared with and subtracted from the balance after interest.
C15_StartMonthFlag ==
    [][ /\ (op = "payoff" /\ pc = "loop" /\ pc' # "returned") =>
              /\ current_month' = InStartMonth(current_date)
              /\ JournalInOrder(ledger'.journal,
                                PoolBefore(ledger'.journal, extra_payment'),
                                current_month')
        /\ (op = "payoff" /\ ~current_month) => ~current_month' ]_vars

\* a debt is processed one year after the start, in the month number of the
\* start month, with interest
C15_Witness ==
    /\ op = "payoff"
    /\ pc = "loop"
    /\ ~current_month
    /\ current_date.year = strptime(request.start_date).year + 1
    /\ current_date.month = strptime(request.start_date).month
    /\ \E j \in 1..Len(ledger.journal) :
          ledger.journal[j].accrual /\ ledger.journal[j].interest > 0

\* the names of the debts of the list L
Names(L) == {L[i].name : i \in 1..Len(L)}

\* the sum of the minimum payments of the request's debts that are no longer
\* in the list L
RECURSIVE FreedMinimums(_, _)
FreedMinimums(R, L) ==
    IF R = <<>> THEN 0
    ELSE (IF Head(R).name \in Names(L) THEN 0 ELSE Head(R).minimum_payment)
         + FreedMinimums(Tail(R), L)

\* the pool is the initial extra payment plus the freed minimum payments
PoolEquation ==
    op = "payoff" => extra_payment = request.extra_payment + FreedMinimums(request.debt, debt)

\* the balance of d on `date` after the interest of that day, if any
Owed(d, date) ==
    d.current_balance
      + (IF InStartMonth(date) THEN 0 ELSE RoundHalfEven(d.current_balance * d.apr, 1200))

\* C16: the pool equals the request's extra_payment plus the minimum payments
\* of all retired debts, changes only when a debt is retired and never
\* decreases; in a completed day step a debt leaves the collection exactly when
\* it is due that day and its balance after interest is at most the payment
\* (every payment is at least the debt's minimum payment and at most the
\* minimum payment plus the pool after the day).
C16_PoolAndRetirement ==
    /\ []PoolEquation
    /\ [][ (op = "payoff" /\ pc = "loop" /\ days' = days + 1) =>
              /\ extra_payment' >= extra_payment
              /\ extra_payment' # extra_payment => Len(debt') < Len(debt)
              /\ \A i \in 1..Len(debt) :
                    LET d == debt[i]
                        gone == d.name \notin Names(debt')
                    IN  /\ gone => /\ is_due(current_date, d)
                                   /\ Owed(d, current_date) <= d.minimum_payment + extra_payment'
                        /\ (is_due(current_date, d)
                              /\ Owed(d, current_date) <= d.minimum_payment) => gone ]_vars

\* the names of the list L, in order
NameSeq(L) == [i \in 1..Len(L) |-> L[i].name]

\* A is B with some elements left out, the others in the same order
RECURSIVE IsSubseq(_, _)
IsSubseq(A, B) ==
    IF A = <<>> THEN TRUE
    ELSE IF B = <<>> THEN FALSE
    ELSE IF Head(A) = Head(B) THEN IsSubseq(Tail(A), Tail(B))
    ELSE IsSubseq(A, Tail(B))

\* every snapshot lists a subsequence of the debts of the snapshot before it,
\* the first one a subsequence of the sorted request
SnapshotsShrink ==
    op = "payoff" =>
      \A k \in 1..Len(payoff_schedule) :
         IsSubseq(NameSeq(payoff_schedule[k].debt),
                  IF k = 1 THEN NameSeq(SortDebts(request.debt, request.method))
                  ELSE NameSeq(payoff_schedule[k - 1].debt))

\* C17: after the sort the collection changes only by removals: after every
\* step the names of the collection are a subsequence of the names before it
\* (no reordering, no reinsertion), whatever the balances are, and each
\* month-end snapshot lists a subsequence of the previous snapshot's debts.
C17_OnlyRemovals ==
    /\ []SnapshotsShrink
    /\ [][ (op = "payoff" /\ pc = "loop") =>
              IsSubseq(NameSeq(debt'), NameSeq(debt)) ]_vars

\* a snowball run in which one snapshot lists two debts whose balances have
\* crossed (the first is larger than the second) and a later snapshot has lost
\* a debt and still lists one
C17_Witness ==
    /\ op = "payoff"
    /\ request.method = "snowball"
    /\ \E k \in 1..Len(payoff_schedule) :
          /\ Len(payoff_schedule[k].debt) >= 2
          /\ payoff_schedule[k].debt[1].current_balance
                > payoff_schedule[k].debt[2].current_balance
          /\ \E m \in (k + 1)..Len(payoff_schedule) :
                /\ payoff_schedule[m].debt # <<>>
                /\ Len(payoff_schedule[m].debt) < Len(payoff_schedule[k].debt)

\* C18: every interest amount added on a due date is current_balance x
\* (apr/100)/12 rounded half-up to whole cents (an exact half cent goes up),
\* and every stored balance is a whole number of cents.
C18_RoundHalfUp ==
    op = "payoff" =>
      /\ \A j \in 1..Len(ledger.journal) :
            LET e == ledger.journal[j]
            IN  e.accrual => e.interest = RoundHalfUp(e.before * AprOf(e.name), 1200)
      /\ \A i \in 1..Len(debt) : debt[i].current_balance \in Int

\* months are numbered year * 12 + month
MonthIndex(date) == (date.year * 12) + date.month

\* the date string of the last day of the month numbered idx
MonthEndOf(idx) ==
    LET y == (idx - 1) \div 12
        m == ((idx - 1) % 12) + 1
    IN  <<m, monthrange(y, m), y>>

\* the sum of the balances a snapshot lists
RECURSIVE SumListed(_)
SumListed(D) ==
    IF D = <<>> THEN 0 ELSE Head(D).current_balance + SumListed(Tail(D))

\* the last day step was the last day of a month
MonthEndStepped ==
    /\ op = "payoff" /\ pc \in {"loop", "returned"} /\ days >= 1
    /\ current_date.day = 1

\* C19: the schedule holds one snapshot for the last day of every month from
\* the month of start_date to the last day stepped, in ascending order and no
\* other; every snapshot's total_debt is the sum of the balances it lists; the
\* snapshot of a month end lists the debts that are in the collection after
\* that day's payments, in order, with their balances, and carries the pool.
C19_MonthEndSnapshots ==
    (op = "payoff" /\ ValidMethod(request)) =>
      LET first == MonthIndex(strptime(request.start_date))
          n == Len(payoff_schedule)
      IN  /\ n = MonthIndex(current_date) - first
          /\ \A k \in 1..n :
                /\ payoff_schedule[k].date = MonthEndOf(first + k - 1)
                /\ payoff_schedule[k].total_debt = SumListed(payoff_schedule[k].debt)
          /\ MonthEndStepped =>
                /\ Len(payoff_schedule[n].debt) = Len(debt)
                /\ \A i \in 1..Len(debt) :
                      /\ payoff_schedule[n].debt[i].name = debt[i].name
                      /\ payoff_schedule[n].debt[i].current_balance = debt[i].current_balance
                /\ payoff_schedule[n].extra_payment = extra_payment

\* a run returned after the last debt was retired on a month's last day: the
\* last snapshot lists no debt, earlier ones do, and a February was crossed
C19_Witness ==
    /\ op = "payoff"
    /\ pc = "returned"
    /\ Len(payoff_schedule) >= 3
    /\ payoff_schedule[1].debt # <<>>
    /\ payoff_schedule[2].date[1] = 2
    /\ payoff_schedule[Len(payoff_schedule)].debt = <<>>
    /\ current_date.day = 1

====
